---- MODULE Spec2Model ----
(***************************************************************************)
(* Kinetic Nexus shaft design engine (src/Axion_app.py).                   *)
(*                                                                         *)
(* The Streamlit script is a state machine: the session state holds the    *)
(* component list and the run_analysis flag, the widgets hold the          *)
(* configuration, and every user interaction runs the script once: the     *)
(* handler of the pressed button, then the analytical readout.             *)
(*                                                                         *)
(* Numbers.  The script computes in floating point; the model computes in  *)
(* exact rational arithmetic (pairs <<n, d>>, d > 0, in lowest terms).     *)
(* math.pi enters the script only through get_torque, as a factor 1/pi of  *)
(* the torque, and every force, reaction and moment is linear in the       *)
(* torque: the model carries torques, forces, reactions and moments as the *)
(* rational coefficient of 1/pi.  A square root is carried as its          *)
(* radicand (M_res2, max_M2, M_eq2) and the required diameter as the       *)
(* coefficient of pi^-4 in its sixth power (d_req6).  Signs, zero tests    *)
(* and comparisons are unchanged by these scalings.                        *)
(***************************************************************************)
EXTENDS Integers, Sequences, FiniteSets, TLC

VARIABLES
    components,      \* st.session_state.components
    run_analysis,    \* st.session_state.run_analysis
    p_input,         \* Power (kW)
    n_input,         \* Speed (RPM)
    len_input,       \* Shaft Length (mm)
    mat_choice,      \* Material Class
    sy_input,        \* Yield (Sy)
    sut_input,       \* Ultimate (Sut)
    kb_input,        \* Kb (Bend)
    kt_input,        \* Kt (Torsion)
    keyway_present,  \* Keyway Geometry checkbox
    readout,         \* what the right column shows after the script run
    lastOp           \* the interaction that caused the last script run

vars == <<components, run_analysis, p_input, n_input, len_input, mat_choice,
          sy_input, sut_input, kb_input, kt_input, keyway_present, readout,
          lastOp>>

config == <<p_input, n_input, len_input, mat_choice, sy_input, sut_input,
            kb_input, kt_input, keyway_present>>

-----------------------------------------------------------------------------
(* Exact rational arithmetic *)

Abs(n) == IF n < 0 THEN -n ELSE n

RECURSIVE GCD(_, _)
GCD(a, b) == IF b = 0 THEN a ELSE GCD(b, a % b)

Rat(n, d) ==
    IF d = 1 THEN <<n, 1>>
    ELSE LET g == GCD(Abs(n), Abs(d))
             s == IF d < 0 THEN -1 ELSE 1
         IN  <<(s * n) \div g, (s * d) \div g>>

Z(n) == <<n, 1>>

Add(a, b) ==
    IF a[2] = b[2] THEN Rat(a[1] + b[1], a[2])
    ELSE Rat(a[1] * b[2] + b[1] * a[2], a[2] * b[2])
Neg(a) == <<-a[1], a[2]>>
Sub(a, b) == Add(a, Neg(b))
Mul(a, b) ==
    IF a[2] = 1 /\ b[2] = 1 THEN <<a[1] * b[1], 1>>
    ELSE LET g1 == GCD(Abs(a[1]), b[2])
             g2 == GCD(Abs(b[1]), a[2])
         IN  <<(a[1] \div g1) * (b[1] \div g2), (a[2] \div g2) * (b[2] \div g1)>>
Inv(a) == IF a[1] < 0 THEN <<-a[2], -a[1]>> ELSE <<a[2], a[1]>>
Div(a, b) == Mul(a, Inv(b))
Sq(a) == <<a[1] * a[1], a[2] * a[2]>>
Lt(a, b) == a[1] * b[2] < b[1] * a[2]
Gt(a, b) == Lt(b, a)
Le(a, b) == ~Lt(b, a)
Min(a, b) == IF Le(a, b) THEN a ELSE b
Zero == Z(0)

-----------------------------------------------------------------------------
(* Constants and materials *)

MATERIALS ==
    [m \in {"AISI 1020 (Low Carbon)", "AISI 1045 (Med Carbon)",
            "AISI 4140 (Alloy Steel)", "Structural Steel (A36)",
            "Custom (Enter Manually)"} |->
        CASE m = "AISI 1020 (Low Carbon)" -> <<295, 380>>
          [] m = "AISI 1045 (Med Carbon)" -> <<310, 565>>
          [] m = "AISI 4140 (Alloy Steel)" -> <<655, 1000>>
          [] m = "Structural Steel (A36)" -> <<250, 400>>
          [] m = "Custom (Enter Manually)" -> <<0, 0>>]

(* The step of the moment sampling, np.arange(0, len_input + 1, 5) *)
SampleStep == 5

-----------------------------------------------------------------------------
(* Input values the model draws the widgets' values from *)

MaxComponents == 3

Powers == {Zero, Rat(1, 100)}
Speeds == {0, 15000}
Lengths == {4, 12, 15}
MatChoices == {"AISI 1020 (Low Carbon)", "Custom (Enter Manually)"}
ManualYields == {0}
ManualUltimates == {380}
KbValues == {Z(1), Rat(3, 2)}
KtValues == {Z(1)}
BearingPositions == {2, 10}
LoadPositions == {5}
TeethValues == {0, 20}
ModuleValues == {Z(1)}
PressAngles == {"atan(1/2)"}
MeshLocs == {"Top", "Bottom", "Right", "Left"}
PulleyDiameters == {0, 20}
BeltFactors == {Rat(3, 2)}
TensionDirs == {"Vertical", "Horizontal"}

(* math.tan(math.radians(g_press)) on the pressure angles drawn *)
Tan(g_press) ==
    CASE g_press = "0" -> Zero
      [] g_press = "atan(1/2)" -> Rat(1, 2)
      [] g_press = "45" -> Z(1)

-----------------------------------------------------------------------------
(* Physics engine *)

(* Torque in N-mm (times pi) from power (kW) and speed (RPM) *)
get_torque(P_kw, N_rpm) ==
    IF N_rpm <= 0 THEN Zero
    ELSE LET P == Mul(P_kw, Z(1000))
         IN  Mul(Div(Mul(P, Z(60)), Z(2 * N_rpm)), Z(1000))

(* The bottom mesh given the top mesh's signs *)
MeshForcesBottomAsTop(g_mesh, Ft, Fr) ==
    CASE g_mesh = "Top" -> <<Ft, Neg(Fr)>>
      [] g_mesh = "Bottom" -> <<Ft, Neg(Fr)>>
      [] g_mesh = "Right" -> <<Neg(Fr), Ft>>
      [] g_mesh = "Left" -> <<Fr, Neg(Ft)>>
      [] OTHER -> <<Zero, Zero>>

(* Mount Gear: the mesh location's force pair <<fh, fv>> *)
MeshForces(g_mesh, Ft, Fr) ==
    CASE g_mesh = "Top" -> <<Ft, Neg(Fr)>>
      [] g_mesh = "Bottom" -> <<Neg(Ft), Fr>>
      [] g_mesh = "Right" -> <<Neg(Fr), Ft>>
      [] g_mesh = "Left" -> <<Fr, Neg(Ft)>>
      [] OTHER -> <<Zero, Zero>>

GearRadius(g_teeth, g_mod) == Div(Mul(Z(g_teeth), g_mod), Z(2))
GearFt(T_nmm, radius) == Div(T_nmm, radius)
GearFr(Ft, g_press) == Mul(Ft, Tan(g_press))

PulleyRadius(pu_dia) == Rat(pu_dia, 2)
PulleyForce(pu_fact, T_nmm, r) == Mul(pu_fact, Div(T_nmm, r))

(* A component of the list; its 'desc', a label for the inventory table, *)
(* enters no computation and is left out                                *)
Component(type, pos, fv, fh) == [type |-> type, pos |-> pos, fv |-> fv, fh |-> fh]

-----------------------------------------------------------------------------
(* Analytical readout: the calculation logic of the right column *)

IsBearing(c) == c.type = "Bearing"

(* sorted(..., key=lambda x: x['pos']): a stable sort by position *)
RECURSIVE InsertByPos(_, _)
InsertByPos(s, c) ==
    IF s = <<>> THEN <<c>>
    ELSE IF s[Len(s)].pos <= c.pos THEN Append(s, c)
    ELSE Append(InsertByPos(SubSeq(s, 1, Len(s) - 1), c), s[Len(s)])

RECURSIVE SortedByPos(_)
SortedByPos(s) ==
    IF s = <<>> THEN <<>>
    ELSE InsertByPos(SortedByPos(SubSeq(s, 1, Len(s) - 1)), s[Len(s)])

(* The bearings in the order of their addition *)
BearingsAsAdded(comps) == SelectSeq(comps, IsBearing)

Bearings(comps) == SortedByPos(SelectSeq(comps, IsBearing))

(* sum(c[key] * (c['pos'] - b1['pos']) for c in components if c['type'] != "Bearing") *)
RECURSIVE MomentSum(_, _, _)
MomentSum(comps, key, posA) ==
    IF comps = <<>> THEN Zero
    ELSE LET c == Head(comps)
             rest == MomentSum(Tail(comps), key, posA)
         IN  IF IsBearing(c) THEN rest
             ELSE Add(Mul(c[key], Z(c.pos - posA)), rest)

(* sum(c[key] for c in components if c['type'] != "Bearing") *)
RECURSIVE ForceSum(_, _)
ForceSum(comps, key) ==
    IF comps = <<>> THEN Zero
    ELSE LET c == Head(comps)
             rest == ForceSum(Tail(comps), key)
         IN  IF IsBearing(c) THEN rest ELSE Add(c[key], rest)

(* The moments taken about the shaft's end instead of the left support *)
solve_reactions_about_origin(comps, key, b1, L_span) ==
    LET m_sum == MomentSum(comps, key, 0)
        f_sum == ForceSum(comps, key)
        Rb == Div(Neg(m_sum), Z(L_span))
        Ra == Sub(Neg(f_sum), Rb)
    IN  <<Ra, Rb>>

(* <<Ra, Rb>> on the axis `key` *)
solve_reactions(comps, key, b1, L_span) ==
    LET m_sum == MomentSum(comps, key, b1.pos)
        f_sum == ForceSum(comps, key)
        Rb == Div(Neg(m_sum), Z(L_span))
        Ra == Sub(Neg(f_sum), Rb)
    IN  <<Ra, Rb>>

(* np.arange(start, stop, step) on integers, step > 0 *)
Arange(start, stop, step) ==
    LET n == IF stop > start THEN (stop - start + step - 1) \div step ELSE 0
    IN  [i \in 1..n |-> start + (i - 1) * step]

x_vals(len) == Arange(0, len + 1, SampleStep)

(* The loads' part of the moment at x on the axis `key` *)
RECURSIVE LoadMoment(_, _, _)
LoadMoment(comps, key, x) ==
    IF comps = <<>> THEN Zero
    ELSE LET c == Head(comps)
             rest == LoadMoment(Tail(comps), key, x)
         IN  IF ~IsBearing(c) /\ x > c.pos
             THEN Add(Mul(c[key], Z(x - c.pos)), rest)
             ELSE rest

(* The right support's reaction left out of the moment *)
MomentAtWithoutRb(comps, key, x, b1, b2, Ra, Rb) ==
    LET m1 == IF x > b1.pos THEN Mul(Ra, Z(x - b1.pos)) ELSE Zero
    IN  Add(m1, LoadMoment(comps, key, x))

(* mv (key "fv", reactions Rav, Rbv) or mh (key "fh", reactions Rah, Rbh) at x *)
MomentAt(comps, key, x, b1, b2, Ra, Rb) ==
    LET m1 == IF x > b1.pos THEN Mul(Ra, Z(x - b1.pos)) ELSE Zero
        m2 == IF x > b2.pos THEN Mul(Rb, Z(x - b2.pos)) ELSE Zero
    IN  Add(Add(m1, m2), LoadMoment(comps, key, x))

(* max_M squared: the running maximum of res over the samples, from 0 *)
RECURSIVE MaxOf(_, _)
MaxOf(s, i) ==
    IF i = 0 THEN Zero
    ELSE LET m == MaxOf(s, i - 1)
         IN  IF Gt(s[i], m) THEN s[i] ELSE m

(* min(0.3*sy_input, 0.18*sut_input), times 0.75 with a keyway *)
TauAllow(sy, sut, keyway) ==
    LET base == Min(Mul(Rat(3, 10), Z(sy)), Mul(Rat(18, 100), Z(sut)))
    IN  IF keyway THEN Mul(base, Rat(75, 100)) ELSE base

(* M_eq squared *)
MEq2(kb, kt, max_M2, T_nmm) == Add(Mul(Sq(kb), max_M2), Mul(Sq(kt), Sq(T_nmm)))

(* d_req = ((16*M_eq)/(math.pi*tau_allow))**(1/3) if tau_allow > 0 else 0 *)
DReq6(M_eq2, tau_allow) ==
    IF Gt(tau_allow, Zero) THEN Div(Mul(Z(256), M_eq2), Sq(tau_allow)) ELSE Zero

(* The results of a run over two supports b1, b2 with L_span > 0 *)
Computed(comps, b1, b2, L_span, p, n, len, sy, sut, kb, kt, keyway) ==
    LET Rv == solve_reactions(comps, "fv", b1, L_span)
        Rh == solve_reactions(comps, "fh", b1, L_span)
        xs == x_vals(len)
        Mv == [i \in DOMAIN xs |-> MomentAt(comps, "fv", xs[i], b1, b2, Rv[1], Rv[2])]
        Mh == [i \in DOMAIN xs |-> MomentAt(comps, "fh", xs[i], b1, b2, Rh[1], Rh[2])]
        Mres2 == [i \in DOMAIN xs |-> Add(Sq(Mv[i]), Sq(Mh[i]))]
        maxM2 == MaxOf(Mres2, Len(Mres2))
        T == get_torque(p, n)
        tau == TauAllow(sy, sut, keyway)
        Meq2 == MEq2(kb, kt, maxM2, T)
    IN  [view |-> "computed", banner |-> "success",
         Rav |-> Rv[1], Rbv |-> Rv[2], Rah |-> Rh[1], Rbh |-> Rh[2],
         x_vals |-> xs, M_v |-> Mv, M_h |-> Mh, M_res2 |-> Mres2,
         max_M2 |-> maxM2, T_nmm |-> T, tau_allow |-> tau, M_eq2 |-> Meq2,
         d_req6 |-> DReq6(Meq2, tau)]

AtLeastTwoBearings(bearings) == Len(bearings) >= 2

(* len(bearings) == 2 *)
HasTwoBearings(bearings) == Len(bearings) = 2

(* L_span > 0 *)
SpanPositive(L_span) == L_span > 0

(* What the right column shows under the schematic *)
Analysis(comps, run, p, n, len, sy, sut, kb, kt, keyway) ==
    IF run THEN
        LET bearings == Bearings(comps)
        IN  IF HasTwoBearings(bearings) THEN
                LET b1 == bearings[1]
                    b2 == bearings[2]
                    L_span == b2.pos - b1.pos
                IN  IF SpanPositive(L_span)
                    THEN Computed(comps, b1, b2, L_span, p, n, len, sy, sut, kb, kt, keyway)
                    ELSE [view |-> "degenerate_span", banner |-> "error"]
            ELSE [view |-> "incomplete", banner |-> "warning"]
    ELSE [view |-> "schematic", banner |-> "none"]

(* The readout of the script run that ends a step *)
Rendered ==
    readout' = Analysis(components', run_analysis', p_input', n_input', len_input',
                        sy_input', sut_input', kb_input', kt_input', keyway_present')

-----------------------------------------------------------------------------
(* The state after the first script run *)

Init ==
    /\ components = <<>>
    /\ run_analysis = FALSE
    /\ p_input = Rat(1, 100)
    /\ n_input = 15000
    /\ len_input = 15
    /\ mat_choice = "AISI 1020 (Low Carbon)"
    /\ sy_input = MATERIALS[mat_choice][1]
    /\ sut_input = MATERIALS[mat_choice][2]
    /\ kb_input = Rat(3, 2)
    /\ kt_input = Z(1)
    /\ keyway_present = TRUE
    /\ readout = [view |-> "schematic", banner |-> "none"]
    /\ lastOp = [op |-> "Start"]

-----------------------------------------------------------------------------
(* 1. Kinetic parameters: a changed widget reruns the script *)

Configure == lastOp' = [op |-> "Configure"]

SetPower(v) ==
    /\ p_input' = v
    /\ UNCHANGED <<components, run_analysis, n_input, len_input, mat_choice,
                   sy_input, sut_input, kb_input, kt_input, keyway_present>>
    /\ Configure /\ Rendered

SetSpeed(v) ==
    /\ n_input' = v
    /\ UNCHANGED <<components, run_analysis, p_input, len_input, mat_choice,
                   sy_input, sut_input, kb_input, kt_input, keyway_present>>
    /\ Configure /\ Rendered

SetLength(v) ==
    /\ len_input' = v
    /\ UNCHANGED <<components, run_analysis, p_input, n_input, mat_choice,
                   sy_input, sut_input, kb_input, kt_input, keyway_present>>
    /\ Configure /\ Rendered

(* A new material class gives the two strength inputs its defaults *)
SelectMaterial(m) ==
    /\ m # mat_choice
    /\ mat_choice' = m
    /\ sy_input' = MATERIALS[m][1]
    /\ sut_input' = MATERIALS[m][2]
    /\ UNCHANGED <<components, run_analysis, p_input, n_input, len_input,
                   kb_input, kt_input, keyway_present>>
    /\ Configure /\ Rendered

SetYield(v) ==
    /\ sy_input' = v
    /\ UNCHANGED <<components, run_analysis, p_input, n_input, len_input,
                   mat_choice, sut_input, kb_input, kt_input, keyway_present>>
    /\ Configure /\ Rendered

SetUltimate(v) ==
    /\ sut_input' = v
    /\ UNCHANGED <<components, run_analysis, p_input, n_input, len_input,
                   mat_choice, sy_input, kb_input, kt_input, keyway_present>>
    /\ Configure /\ Rendered

SetKb(v) ==
    /\ kb_input' = v
    /\ UNCHANGED <<components, run_analysis, p_input, n_input, len_input,
                   mat_choice, sy_input, sut_input, kt_input, keyway_present>>
    /\ Configure /\ Rendered

SetKt(v) ==
    /\ kt_input' = v
    /\ UNCHANGED <<components, run_analysis, p_input, n_input, len_input,
                   mat_choice, sy_input, sut_input, kb_input, keyway_present>>
    /\ Configure /\ Rendered

ToggleKeyway ==
    /\ keyway_present' = ~keyway_present
    /\ UNCHANGED <<components, run_analysis, p_input, n_input, len_input,
                   mat_choice, sy_input, sut_input, kb_input, kt_input>>
    /\ Configure /\ Rendered

-----------------------------------------------------------------------------
(* 2. Load configurator *)

(* The new component written over the last one *)
OverwriteLast(comps, c) ==
    IF comps = <<>> THEN <<c>> ELSE [comps EXCEPT ![Len(comps)] = c]

(* st.session_state.components.append(...) *)
AppendComponent(comps, c) == Append(comps, c)

(* del st.session_state.components[i], i counted from 1 *)
DeleteAt(comps, i) == SubSeq(comps, 1, i - 1) \o SubSeq(comps, i + 1, Len(comps))

(* The torque left unchecked *)
RadiusPositive(radius, T_nmm) == Gt(radius, Zero)

(* if radius > 0 and T_nmm > 0 *)
LoadAccepted(radius, T_nmm) == Gt(radius, Zero) /\ Gt(T_nmm, Zero)

InitializeBearing(b_pos) ==
    /\ Len(components) < MaxComponents
    /\ components' = AppendComponent(components, Component("Bearing", b_pos, Zero, Zero))
    /\ run_analysis' = FALSE
    /\ lastOp' = [op |-> "InitializeBearing"]
    /\ UNCHANGED config
    /\ Rendered

MountGear(g_pos, g_teeth, g_mod, g_press, g_mesh) ==
    LET radius == GearRadius(g_teeth, g_mod)
        T_nmm == get_torque(p_input, n_input)
    IN  /\ IF LoadAccepted(radius, T_nmm)
           THEN LET Ft == GearFt(T_nmm, radius)
                    Fr == GearFr(Ft, g_press)
                    f == MeshForces(g_mesh, Ft, Fr)
                IN  /\ Len(components) < MaxComponents
                    /\ components' = AppendComponent(components,
                                         Component("Gear", g_pos, f[2], f[1]))
                    /\ run_analysis' = FALSE
           ELSE UNCHANGED <<components, run_analysis>>
        /\ lastOp' = [op |-> "MountGear"]
        /\ UNCHANGED config
        /\ Rendered

MountPulley(pu_pos, pu_dia, pu_fact, pu_dir) ==
    LET r == PulleyRadius(pu_dia)
        T_nmm == get_torque(p_input, n_input)
    IN  /\ IF LoadAccepted(r, T_nmm)
           THEN LET F_bend == PulleyForce(pu_fact, T_nmm, r)
                    fv == IF pu_dir = "Vertical" THEN Neg(F_bend) ELSE Zero
                    fh == IF pu_dir = "Horizontal" THEN Neg(F_bend) ELSE Zero
                IN  /\ Len(components) < MaxComponents
                    /\ components' = AppendComponent(components,
                                         Component("Pulley", pu_pos, fv, fh))
                    /\ run_analysis' = FALSE
           ELSE UNCHANGED <<components, run_analysis>>
        /\ lastOp' = [op |-> "MountPulley"]
        /\ UNCHANGED config
        /\ Rendered

(* The purge without its reset of run_analysis *)
PurgeKeepsAnalysis(i) ==
    /\ i \in 1..Len(components)
    /\ components' = DeleteAt(components, i)
    /\ UNCHANGED run_analysis
    /\ lastOp' = [op |-> "Purge"]
    /\ UNCHANGED config
    /\ Rendered

(* The deletion controls are drawn only while the list is not empty *)
Purge(i) ==
    /\ i \in 1..Len(components)
    /\ components' = DeleteAt(components, i)
    /\ run_analysis' = FALSE
    /\ lastOp' = [op |-> "Purge"]
    /\ UNCHANGED config
    /\ Rendered

ResetNexus ==
    /\ components # <<>>
    /\ components' = <<>>
    /\ run_analysis' = FALSE
    /\ lastOp' = [op |-> "ResetNexus"]
    /\ UNCHANGED config
    /\ Rendered

ActivateSimulation ==
    /\ run_analysis' = TRUE
    /\ lastOp' = [op |-> "ActivateSimulation"]
    /\ UNCHANGED <<components, config>>
    /\ Rendered

-----------------------------------------------------------------------------

(* The load configurator with every mesh location and tension direction, *)
(* the power input and the simulation core                               *)
Next ==
    \/ \E v \in Powers : SetPower(v)
    \/ \E b_pos \in BearingPositions : InitializeBearing(b_pos)
    \/ \E g_pos \in LoadPositions, g_teeth \in TeethValues, g_mod \in ModuleValues,
          g_press \in PressAngles, g_mesh \in MeshLocs :
            MountGear(g_pos, g_teeth, g_mod, g_press, g_mesh)
    \/ \E pu_pos \in LoadPositions, pu_dia \in PulleyDiameters,
          pu_fact \in BeltFactors, pu_dir \in TensionDirs :
            MountPulley(pu_pos, pu_dia, pu_fact, pu_dir)
    \/ \E i \in 1..MaxComponents : Purge(i)
    \/ ResetNexus
    \/ ActivateSimulation

Spec == Init /\ [][Next]_vars

(* The load configurator with the gears meshing at the top and the belts *)
(* pulling vertically, the simulation core, and the power, speed,        *)
(* length and keyway widgets                                             *)
NextConfig ==
    \/ \E v \in Powers : SetPower(v)
    \/ \E v \in Speeds : SetSpeed(v)
    \/ \E v \in Lengths : SetLength(v)
    \/ ToggleKeyway
    \/ \E b_pos \in BearingPositions : InitializeBearing(b_pos)
    \/ \E g_pos \in LoadPositions, g_teeth \in TeethValues, g_mod \in ModuleValues,
          g_press \in PressAngles :
            MountGear(g_pos, g_teeth, g_mod, g_press, "Top")
    \/ \E pu_pos \in LoadPositions, pu_dia \in PulleyDiameters,
          pu_fact \in BeltFactors :
            MountPulley(pu_pos, pu_dia, pu_fact, "Vertical")
    \/ \E i \in 1..MaxComponents : Purge(i)
    \/ ResetNexus
    \/ ActivateSimulation

SpecConfig == Init /\ [][NextConfig]_vars

(* The supports, one gear mesh, the simulation core, and the material, *)
(* strength, shock factor and keyway widgets                           *)
NextSizing ==
    \/ \E m \in MatChoices : SelectMaterial(m)
    \/ \E v \in ManualYields : SetYield(v)
    \/ \E v \in ManualUltimates : SetUltimate(v)
    \/ \E v \in KbValues : SetKb(v)
    \/ \E v \in KtValues : SetKt(v)
    \/ ToggleKeyway
    \/ \E b_pos \in BearingPositions : InitializeBearing(b_pos)
    \/ \E g_pos \in LoadPositions, g_teeth \in TeethValues, g_mod \in ModuleValues,
          g_press \in PressAngles :
            MountGear(g_pos, g_teeth, g_mod, g_press, "Top")
    \/ \E i \in 1..MaxComponents : Purge(i)
    \/ ResetNexus
    \/ ActivateSimulation

SpecSizing == Init /\ [][NextSizing]_vars

-----------------------------------------------------------------------------
(* Vocabulary of the properties *)

Last(s) == s[Len(s)]

BearingIdx == {i \in DOMAIN components : components[i].type = "Bearing"}
LoadIdx == DOMAIN components \ BearingIdx

ExactlyTwoBearings == Cardinality(BearingIdx) = 2

(* The two supports stand at different positions *)
SupportsApart ==
    /\ ExactlyTwoBearings
    /\ \E i, j \in BearingIdx : components[i].pos < components[j].pos

(* The position of the left support and the distance to the right one *)
PosA == CHOOSE a \in {components[i].pos : i \in BearingIdx} :
            \A i \in BearingIdx : a <= components[i].pos
PosB == CHOOSE b \in {components[i].pos : i \in BearingIdx} :
            \A i \in BearingIdx : components[i].pos <= b
Span == PosB - PosA

NumericFields == {"Rav", "Rbv", "Rah", "Rbh", "x_vals", "M_v", "M_h", "M_res2",
                  "max_M2", "T_nmm", "tau_allow", "M_eq2", "d_req6"}

(* Sums over the loads with indices S on the axis `key` *)
RECURSIVE LoadForceTotal(_, _)
LoadForceTotal(S, key) ==
    IF S = {} THEN Zero
    ELSE LET i == CHOOSE k \in S : TRUE
         IN  Add(components[i][key], LoadForceTotal(S \ {i}, key))

RECURSIVE LoadMomentTotal(_, _, _)
LoadMomentTotal(S, key, about) ==
    IF S = {} THEN Zero
    ELSE LET i == CHOOSE k \in S : TRUE
         IN  Add(Mul(components[i][key], Z(components[i].pos - about)),
                 LoadMomentTotal(S \ {i}, key, about))

(* C1: a run of the analysis produces numeric results exactly when the list *)
(* holds two bearings at different positions; any other number of bearings  *)
(* gives the incomplete-setup outcome, two bearings at one position give    *)
(* the degenerate-span outcome, and neither failure carries a reaction,     *)
(* moment or diameter value.                                                *)
ClaimC1 ==
    run_analysis =>
        /\ (readout.view = "computed") <=> SupportsApart
        /\ readout.view = "computed" => NumericFields \subseteq DOMAIN readout
        /\ ~ExactlyTwoBearings =>
              /\ readout.view = "incomplete"
              /\ DOMAIN readout \cap NumericFields = {}
        /\ (ExactlyTwoBearings /\ ~SupportsApart) =>
              /\ readout.view = "degenerate_span"
              /\ DOMAIN readout \cap NumericFields = {}

(* A run over two supports at the same position, with a load mounted *)
WitnessC1 ==
    /\ run_analysis
    /\ ExactlyTwoBearings /\ ~SupportsApart
    /\ LoadIdx # {}
    /\ readout.view = "degenerate_span"

(* C2: the solved reactions are in equilibrium with the loads on each axis: *)
(* the forces sum to zero and so do the moments about the left support.     *)
ClaimC2 ==
    readout.view = "computed" =>
        /\ Add(Add(readout.Rav, readout.Rbv), LoadForceTotal(LoadIdx, "fv")) = Zero
        /\ Add(Add(readout.Rah, readout.Rbh), LoadForceTotal(LoadIdx, "fh")) = Zero
        /\ Add(Mul(readout.Rbv, Z(Span)), LoadMomentTotal(LoadIdx, "fv", PosA)) = Zero
        /\ Add(Mul(readout.Rbh, Z(Span)), LoadMomentTotal(LoadIdx, "fh", PosA)) = Zero

(* Reactions solved for a load that pushes on both axes *)
WitnessC2 ==
    /\ readout.view = "computed"
    /\ LoadIdx # {}
    /\ readout.Rbv # Zero /\ readout.Rbh # Zero
    /\ readout.Rav # Zero /\ readout.Rah # Zero

(* A step of the Mount Gear button whose radius or torque is not positive,  *)
(* and the same for the Mount Pulley button                                 *)
GearRefused ==
    /\ lastOp'.op = "MountGear"
    /\ \E g_pos \in LoadPositions, g_teeth \in TeethValues, g_mod \in ModuleValues,
       g_press \in PressAngles, g_mesh \in MeshLocs :
        /\ MountGear(g_pos, g_teeth, g_mod, g_press, g_mesh)
        /\ \/ Le(Div(Mul(Z(g_teeth), g_mod), Z(2)), Zero)
           \/ Le(get_torque(p_input, n_input), Zero)

PulleyRefused ==
    /\ lastOp'.op = "MountPulley"
    /\ \E pu_pos \in LoadPositions, pu_dia \in PulleyDiameters,
       pu_fact \in BeltFactors, pu_dir \in TensionDirs :
        /\ MountPulley(pu_pos, pu_dia, pu_fact, pu_dir)
        /\ \/ Le(Rat(pu_dia, 2), Zero)
           \/ Le(get_torque(p_input, n_input), Zero)

(* C3: an add of a gear or a pulley whose radius or torque is not positive *)
(* leaves the component list exactly as it was.                            *)
ClaimC3 == [][(GearRefused \/ PulleyRefused) => components' = components]_vars

(* The Mount Gear button pressed for a gear of no radius, under a positive *)
(* torque, on a list that holds components: no gear was appended           *)
WitnessC3 ==
    /\ lastOp.op = "MountGear"
    /\ Gt(get_torque(p_input, n_input), Zero)
    /\ components # <<>>
    /\ Last(components).type # "Gear"

(* What the user can observe: the list, the flag and the readout *)
observable == <<components, run_analysis, readout>>

(* C4: a refused add reports a rejection: what the user observes after it *)
(* differs from what was observed before the button was pressed.          *)
ClaimC4 == [][(GearRefused \/ PulleyRefused) => observable' # observable]_vars

(* The reactions a readout shows, none when nothing was computed *)
ReactionsOf(r) ==
    IF r.view = "computed" THEN <<r.Rav, r.Rah, r.Rbv, r.Rbh>> ELSE <<>>

(* The list in another order of addition *)
Reordered(pi) == [i \in DOMAIN components |-> components[pi[i]]]

(* C5: the reactions shown are those of every other order in which the same *)
(* bearings and loads could have been added.                                *)
ClaimC5 ==
    readout.view = "computed" =>
        \A pi \in Permutations(DOMAIN components) :
            ReactionsOf(Analysis(Reordered(pi), run_analysis, p_input, n_input,
                                 len_input, sy_input, sut_input, kb_input,
                                 kt_input, keyway_present))
                = ReactionsOf(readout)

(* Reactions computed with the right support added first, a load second *)
(* and the left support last                                            *)
WitnessC5 ==
    /\ readout.view = "computed"
    /\ Len(components) = 3
    /\ components[1].type = "Bearing" /\ components[3].type = "Bearing"
    /\ components[2].type # "Bearing"
    /\ components[1].pos > components[3].pos
    /\ readout.Rav # Zero

(* C6: an accepted gear stores <<fh, fv>> = <<Ft, -Fr>> at the top, <<-Ft, Fr>> *)
(* at the bottom, <<-Fr, Ft>> at the right and <<Fr, -Ft>> at the left, so the  *)
(* bottom pair negates the top pair and the left pair the right pair.           *)
ClaimC6 ==
    [][(lastOp'.op = "MountGear" /\ components' # components) =>
       \A g_pos \in LoadPositions, g_teeth \in TeethValues, g_mod \in ModuleValues,
          g_press \in PressAngles, g_mesh \in MeshLocs :
          MountGear(g_pos, g_teeth, g_mod, g_press, g_mesh) =>
            LET Ft == Div(get_torque(p_input, n_input), GearRadius(g_teeth, g_mod))
                Fr == Mul(Ft, Tan(g_press))
                c == Last(components')
                top == MeshForces("Top", Ft, Fr)
                bottom == MeshForces("Bottom", Ft, Fr)
                right == MeshForces("Right", Ft, Fr)
                left == MeshForces("Left", Ft, Fr)
            IN  /\ c.type = "Gear"
                /\ g_mesh = "Top" => (c.fh = Ft /\ c.fv = Neg(Fr))
                /\ g_mesh = "Bottom" => (c.fh = Neg(Ft) /\ c.fv = Fr)
                /\ g_mesh = "Right" => (c.fh = Neg(Fr) /\ c.fv = Ft)
                /\ g_mesh = "Left" => (c.fh = Fr /\ c.fv = Neg(Ft))
                /\ bottom = <<Neg(top[1]), Neg(top[2])>>
                /\ left = <<Neg(right[1]), Neg(right[2])>>]_vars

(* A gear meshing at the bottom was just appended: Ft pulls it backwards *)
(* and the smaller Fr lifts it                                           *)
WitnessC6 ==
    /\ lastOp.op = "MountGear"
    /\ components # <<>>
    /\ Last(components).type = "Gear"
    /\ Lt(Last(components).fh, Zero)
    /\ Gt(Last(components).fv, Zero)
    /\ Gt(Neg(Last(components).fh), Last(components).fv)

(* Every component stands between the two ends of the shaft *)
AllOnShaft ==
    \A i \in DOMAIN components :
        components[i].pos >= 0 /\ components[i].pos <= len_input

(* C7: every component of the list stands on the shaft, *)
(* 0 <= position <= shaft length.                       *)
ClaimC7 ==
    \A i \in DOMAIN components :
        0 <= components[i].pos /\ components[i].pos <= len_input

(* C8: a run over two supports apart whose allowable shear stress is not   *)
(* positive reports the diameter 0 and flags the result invalid: it is not *)
(* shown the way a valid computed result is.                               *)
ClaimC8 ==
    (readout.view = "computed" /\ Le(readout.tau_allow, Zero)) =>
        /\ readout.d_req6 = Zero
        /\ readout.banner # "success"

(* The list after a step holds the list before it, with one component *)
(* appended at its end                                                *)
Extended ==
    /\ Len(components') = Len(components) + 1
    /\ SubSeq(components', 1, Len(components)) = components

(* The list after a step is the list before it without its i-th component *)
Without(i) ==
    /\ Len(components') = Len(components) - 1
    /\ \A j \in DOMAIN components' :
          components'[j] = IF j < i THEN components[j] ELSE components[j + 1]

(* C9: a component in the list keeps its kind, position and forces: a step  *)
(* leaves the list as it is, appends one component to it, removes one       *)
(* component by a purge or empties it by a reset; a change of power, speed  *)
(* or other configuration and a run of the analysis leave it as it is.      *)
ClaimC9 ==
    [][/\ \/ components' = components
          \/ /\ lastOp'.op \in {"InitializeBearing", "MountGear", "MountPulley"}
             /\ Extended
          \/ /\ lastOp'.op = "Purge"
             /\ \E i \in DOMAIN components : Without(i)
          \/ /\ lastOp'.op = "ResetNexus"
             /\ components' = <<>>
       /\ lastOp'.op \in {"Configure", "ActivateSimulation"} =>
             components' = components]_vars

(* A gear mounted under a positive torque still carries its forces after *)
(* the torque was configured to zero and the analysis was run            *)
WitnessC9 ==
    /\ get_torque(p_input, n_input) = Zero
    /\ readout.view = "computed"
    /\ \E i \in DOMAIN components :
          /\ components[i].type = "Gear"
          /\ components[i].fh # Zero
          /\ components[i].fv # Zero

(* C10: for a shaft length > 0 the sample positions start at 0, are spaced *)
(* by the step, and end with the shaft length itself.  Stated for the     *)
(* lists whose components all stand on the shaft, so that a failure rests *)
(* on the sampling alone.                                                 *)
ClaimC10 ==
    (readout.view = "computed" /\ len_input > 0 /\ AllOnShaft) =>
        LET xs == readout.x_vals
        IN  /\ xs # <<>>
            /\ xs[1] = 0
            /\ \A i \in 1..(Len(xs) - 1) : xs[i + 1] - xs[i] = SampleStep
            /\ xs[Len(xs)] = len_input

(* C11: a step that changes the component list leaves run_analysis false and *)
(* the readout without results, and while run_analysis is false no reaction, *)
(* moment or diameter is shown: results wait for the next activation.        *)
ClaimC11 ==
    [][/\ components' # components =>
             /\ run_analysis' = FALSE
             /\ readout'.view = "schematic"
       /\ run_analysis' = FALSE => DOMAIN readout' \cap NumericFields = {}
       /\ (run_analysis' /\ ~run_analysis) => lastOp'.op = "ActivateSimulation"]_vars

(* A load was purged from a list that keeps two supports apart: the list *)
(* could be analysed, and nothing is shown                               *)
WitnessC11 ==
    /\ lastOp.op = "Purge"
    /\ SupportsApart
    /\ ~run_analysis
    /\ readout.view = "schematic"

(* The sample x lies right of every component, or on or left of every one *)
OutsideLoadedRegion(x) ==
    \/ \A i \in DOMAIN components : x > components[i].pos
    \/ \A i \in DOMAIN components : x <= components[i].pos

(* C12: in a computed readout the vertical, the horizontal and the resultant *)
(* moment are zero at every sample right of all bearings and loads and at    *)
(* every sample on or left of all of them.                                   *)
ClaimC12 ==
    readout.view = "computed" =>
        \A k \in DOMAIN readout.x_vals :
            OutsideLoadedRegion(readout.x_vals[k]) =>
                /\ readout.M_v[k] = Zero
                /\ readout.M_h[k] = Zero
                /\ readout.M_res2[k] = Zero

(* A loaded shaft that bends between its supports, sampled at its left end *)
(* and right of its last component                                         *)
WitnessC12 ==
    /\ readout.view = "computed"
    /\ LoadIdx # {}
    /\ readout.max_M2 # Zero
    /\ \E k \in DOMAIN readout.x_vals :
          \A i \in DOMAIN components : readout.x_vals[k] > components[i].pos
    /\ \E k \in DOMAIN readout.x_vals :
          \A i \in DOMAIN components : readout.x_vals[k] <= components[i].pos

====
